---- MODULE Spec2Model ----
(***************************************************************************)
(* Blogly: users, posts and tags behind Flask route handlers and a        *)
(* relational store (src/unit27.2.py).  The state is the committed        *)
(* content of the four tables plus the id sequences of the three serial   *)
(* primary keys; every action is one HTTP request handled from its first  *)
(* line to its response, the commit (or the rollback of a failed request) *)
(* included.  req records the request just answered and old the store as  *)
(* that request found it.                                                  *)
(***************************************************************************)
EXTENDS Integers, FiniteSets, Sequences, TLC

VARIABLES users, posts, tags, posts_tags, seq, req, old

vars == <<users, posts, tags, posts_tags, seq, req, old>>

store == [users |-> users, posts |-> posts, tags |-> tags,
          posts_tags |-> posts_tags, seq |-> seq]

(* ---------------------------------------------------------------------- *)
(* Bounds                                                                  *)
(* ---------------------------------------------------------------------- *)
\* highest id the users / posts / tags id sequences hand out
MaxUserId == 2
MaxPostId == 2
MaxTagId == 2
\* the same, for the specification that submits every shape of form
FormsMaxId == 1

\* ids a request may name in its path: every id the sequence can hand out
\* (an id not handed out yet, or deleted, has no row)
UserIds == 1..MaxUserId
PostIds == 1..MaxPostId
TagIds == 1..MaxTagId
\* ids a form may list: the same, and one more that never has a row
ListedPostIds == 1..(MaxPostId + 1)
ListedTagIds == 1..(MaxTagId + 1)

(* ---------------------------------------------------------------------- *)
(* Program constants and input domains                                     *)
(* ---------------------------------------------------------------------- *)
DEFAULT_IMAGE_URL == "https://www.freeiconspng.com/uploads/icon-user-blue-symbol-people-person-generic--public-domain--21.png"

\* A form key holds the list of the values submitted under it
\* (request.form is a MultiDict): <<>> when the key is absent.
Field(S) == {<<>>} \cup {<<v>> : v \in S}

\* every shape of form: each text key absent, empty or filled
UserForms == [first_name : Field({"", "Ann"}), last_name : Field({"", "Lee"}),
              image_url : Field({"", "u.png"})]
PostForms == [title : Field({"", "T"}), content : Field({"", "C"}),
              tags : SUBSET (1..(FormsMaxId + 1))]
TagForms == [name : Field({"", "fun"}), posts : SUBSET (1..(FormsMaxId + 1))]

\* the forms of the specification of the whole application: the text of a
\* user or a post is one fixed value, a key of each form may be absent, tag
\* names are drawn from two values, id lists from every set of ids
CoreUserForms == [first_name : Field({"Ann"}), last_name : {<<"Lee">>},
                  image_url : {<<"u.png">>}]
CorePostForms == [title : Field({"T"}), content : {<<"C">>},
                  tags : SUBSET ListedTagIds]
CoreTagForms == [name : Field({"fun", "art"}), posts : SUBSET ListedPostIds]

NoForm == [none |-> <<>>]

(* ---------------------------------------------------------------------- *)
(* Queries                                                                 *)
(* ---------------------------------------------------------------------- *)
\* fault: the first row of the table is taken, whatever the id asked for
HasRowFirst(table, id) == table # {}

\* Model.query.get_or_404(id): is there a row with that primary key
HasRow(table, id) == \E r \in table : r.id = id

\* Model.query.filter(Model.id.in_(ids)).all(), as the set of ids found
IdsIn(table, ids) == {r.id : r \in {x \in table : x.id \in ids}}

\* post.tags / tag.posts, read through the rows of the secondary table
TagsOf(rows, p) == {pt.tag_id : pt \in {x \in rows : x.post_id = p}}
PostsOf(rows, t) == {pt.post_id : pt \in {x \in rows : x.tag_id = t}}

\* user.posts
PostsOwnedBy(u) == {p.id : p \in {x \in posts : x.user_id = u}}

\* request.form[key]: the first value; a 400 response when the key is absent
Missing(form, keys) == \E k \in keys : form[k] = <<>>
Get(form, k) == Head(form[k])

(* ---------------------------------------------------------------------- *)
(* Responses                                                               *)
(* ---------------------------------------------------------------------- *)
Request(op, id, form, status) ==
    [op |-> op, id |-> id, form |-> form, status |-> status]

\* a request aborted before its commit (abort(404), a missing form key):
\* the session is discarded with the request, nothing reaches the store
Reject(op, id, form, status) ==
    /\ req' = Request(op, id, form, status)
    /\ old' = store
    /\ UNCHANGED <<users, posts, tags, posts_tags, seq>>

\* a GET route of one row: renders its page (200) or the 404 page
Show(op, table, id) ==
    Reject(op, id, NoForm, IF HasRow(table, id) THEN 200 ELSE 404)

\* a GET route of a list or an empty form
Page(op) == Reject(op, 0, NoForm, 200)

Init ==
    /\ users = {}
    /\ posts = {}
    /\ tags = {}
    /\ posts_tags = {}
    /\ seq = [users |-> 1, posts |-> 1, tags |-> 1]
    /\ req = Request("create_all", 0, NoForm, 200)
    /\ old = [users |-> {}, posts |-> {}, tags |-> {}, posts_tags |-> {},
              seq |-> [users |-> 1, posts |-> 1, tags |-> 1]]

(* ---------------------------------------------------------------------- *)
(* Persistence                                                             *)
(* ---------------------------------------------------------------------- *)
\* fault: the rows of the secondary table are committed on their own, ahead
\* of the statement that violates the constraint
CommitRowsFirst(op, id, form, new, violated) ==
    /\ old' = store
    /\ seq' = new.seq
    /\ posts_tags' = new.posts_tags
    /\ IF violated
       THEN /\ req' = Request(op, id, form, 500)
            /\ UNCHANGED <<users, posts, tags>>
       ELSE /\ req' = Request(op, id, form, 302)
            /\ users' = new.users
            /\ posts' = new.posts
            /\ tags' = new.tags

\* db.session.commit(): the request's unit of work is flushed in one
\* transaction.  When a statement violates a constraint the transaction is
\* rolled back, no table changes (an id drawn from a sequence by the failed
\* INSERT is not given back) and the IntegrityError surfaces as a 500.
\* Otherwise every change becomes visible at once and the handler redirects.
Commit(op, id, form, new, violated) ==
    /\ old' = store
    /\ seq' = new.seq
    /\ IF violated
       THEN /\ req' = Request(op, id, form, 500)
            /\ UNCHANGED <<users, posts, tags, posts_tags>>
       ELSE /\ req' = Request(op, id, form, 302)
            /\ users' = new.users
            /\ posts' = new.posts
            /\ tags' = new.tags
            /\ posts_tags' = new.posts_tags

\* fault: the column is declared without unique=True
UniqueViolationOff(name, id) == FALSE

\* tags.name is unique=True: a row other than id already holds the name
UniqueViolation(name, id) == \E t \in tags : t.name = name /\ t.id # id

\* fault: the submitted value is passed on as it is, without `or None`
OrNoneKept(value) == <<value>>

\* value or None; None is the empty list, a value the list of it
OrNone(value) == IF value = "" THEN <<>> ELSE <<value>>

\* Column(default=...): the default is stored when the attribute is None
ColumnDefault(value, default) == IF value = <<>> THEN default ELSE Head(value)

\* fault: the relationship has no cascade, the user's posts stay behind
PostsAfterUserDeleteNoCascade(u) == posts

\* fault: the posts to delete are matched on their own id
PostsAfterUserDeleteById(u) == {p \in posts : p.id # u}

\* User.posts, cascade="all, delete-orphan": the posts left when user u is
\* deleted
PostsAfterUserDelete(u) == {p \in posts : p.user_id # u}

\* deleting posts ps deletes their rows of the secondary table
RowsAfterPostsDelete(ps) == {pt \in posts_tags : pt.post_id \notin ps}

\* fault: the rows of a deleted tag stay in the secondary table
RowsAfterTagDeleteKept(t) == posts_tags

\* deleting tag t deletes its rows of the secondary table
RowsAfterTagDelete(t) == {pt \in posts_tags : pt.tag_id # t}

\* fault: the submitted tags are appended to the post's tags
ReplaceTagsAppend(p, ts) ==
    posts_tags \cup {[post_id |-> p, tag_id |-> t] : t \in ts}

\* post.tags = ts: the rows of post p become one row per tag of ts
ReplaceTags(p, ts) ==
    {pt \in posts_tags : pt.post_id # p}
        \cup {[post_id |-> p, tag_id |-> t] : t \in ts}

\* fault: the whole secondary table is rewritten from the tag's posts
ReplacePostsOnly(t, ps) == {[post_id |-> p, tag_id |-> t] : p \in ps}

\* tag.posts = ps: the rows of tag t become one row per post of ps
ReplacePosts(t, ps) ==
    {pt \in posts_tags : pt.tag_id # t}
        \cup {[post_id |-> p, tag_id |-> t] : p \in ps}

(* ---------------------------------------------------------------------- *)
(* User routes                                                             *)
(* ---------------------------------------------------------------------- *)
users_index == Page("users_index")

users_new_form == Page("users_new_form")

users_new(form) ==
    IF Missing(form, {"first_name", "last_name", "image_url"})
    THEN Reject("users_new", 0, form, 400)
    ELSE LET new_user ==
                 [id |-> seq.users,
                  first_name |-> Get(form, "first_name"),
                  last_name |-> Get(form, "last_name"),
                  image_url |-> ColumnDefault(OrNone(Get(form, "image_url")),
                                              DEFAULT_IMAGE_URL)]
         IN Commit("users_new", 0, form,
                   [store EXCEPT !.users = @ \cup {new_user},
                                 !.seq.users = @ + 1],
                   FALSE)

users_show(user_id) == Show("users_show", users, user_id)

users_edit(user_id) == Show("users_edit", users, user_id)

users_update(user_id, form) ==
    IF ~HasRow(users, user_id)
    THEN Reject("users_update", user_id, form, 404)
    ELSE IF Missing(form, {"first_name", "last_name", "image_url"})
    THEN Reject("users_update", user_id, form, 400)
    ELSE LET user == [id |-> user_id,
                      first_name |-> Get(form, "first_name"),
                      last_name |-> Get(form, "last_name"),
                      image_url |-> Get(form, "image_url")]
         IN Commit("users_update", user_id, form,
                   [store EXCEPT !.users =
                       {IF u.id = user_id THEN user ELSE u : u \in @}],
                   FALSE)

users_destroy(user_id) ==
    IF ~HasRow(users, user_id)
    THEN Reject("users_destroy", user_id, NoForm, 404)
    ELSE Commit("users_destroy", user_id, NoForm,
                [store EXCEPT !.users = {u \in @ : u.id # user_id},
                              !.posts = PostsAfterUserDelete(user_id),
                              !.posts_tags =
                                  RowsAfterPostsDelete(PostsOwnedBy(user_id))],
                FALSE)

(* ---------------------------------------------------------------------- *)
(* Post routes                                                             *)
(* ---------------------------------------------------------------------- *)
root == Page("root")

posts_new_form(user_id) == Show("posts_new_form", users, user_id)

posts_new(user_id, form) ==
    IF ~HasRow(users, user_id)
    THEN Reject("posts_new", user_id, form, 404)
    ELSE IF Missing(form, {"title", "content"})
    THEN Reject("posts_new", user_id, form, 400)
    ELSE LET new_post == [id |-> seq.posts,
                          title |-> Get(form, "title"),
                          content |-> Get(form, "content"),
                          user_id |-> user_id]
         IN Commit("posts_new", user_id, form,
                   [store EXCEPT !.posts = @ \cup {new_post},
                                 !.posts_tags =
                                     ReplaceTags(seq.posts, IdsIn(tags, form.tags)),
                                 !.seq.posts = @ + 1],
                   FALSE)

posts_show(post_id) == Show("posts_show", posts, post_id)

posts_edit(post_id) == Show("posts_edit", posts, post_id)

posts_update(post_id, form) ==
    IF ~HasRow(posts, post_id)
    THEN Reject("posts_update", post_id, form, 404)
    ELSE IF Missing(form, {"title", "content"})
    THEN Reject("posts_update", post_id, form, 400)
    ELSE Commit("posts_update", post_id, form,
                [store EXCEPT !.posts =
                    {IF p.id = post_id
                     THEN [p EXCEPT !.title = Get(form, "title"),
                                    !.content = Get(form, "content")]
                     ELSE p : p \in @},
                              !.posts_tags =
                                  ReplaceTags(post_id, IdsIn(tags, form.tags))],
                FALSE)

posts_destroy(post_id) ==
    IF ~HasRow(posts, post_id)
    THEN Reject("posts_destroy", post_id, NoForm, 404)
    ELSE Commit("posts_destroy", post_id, NoForm,
                [store EXCEPT !.posts = {p \in @ : p.id # post_id},
                              !.posts_tags = RowsAfterPostsDelete({post_id})],
                FALSE)

(* ---------------------------------------------------------------------- *)
(* Tag routes                                                              *)
(* ---------------------------------------------------------------------- *)
tags_index == Page("tags_index")

tags_new_form == Page("tags_new_form")

tags_new(form) ==
    IF Missing(form, {"name"})
    THEN Reject("tags_new", 0, form, 400)
    ELSE LET new_tag == [id |-> seq.tags, name |-> Get(form, "name")]
         IN Commit("tags_new", 0, form,
                   [store EXCEPT !.tags = @ \cup {new_tag},
                                 !.posts_tags =
                                     ReplacePosts(seq.tags, IdsIn(posts, form.posts)),
                                 !.seq.tags = @ + 1],
                   UniqueViolation(Get(form, "name"), seq.tags))

tags_show(tag_id) == Show("tags_show", tags, tag_id)

tags_edit_form(tag_id) == Show("tags_edit_form", tags, tag_id)

tags_edit(tag_id, form) ==
    IF ~HasRow(tags, tag_id)
    THEN Reject("tags_edit", tag_id, form, 404)
    ELSE IF Missing(form, {"name"})
    THEN Reject("tags_edit", tag_id, form, 400)
    ELSE Commit("tags_edit", tag_id, form,
                [store EXCEPT !.tags =
                    {IF t.id = tag_id
                     THEN [t EXCEPT !.name = Get(form, "name")]
                     ELSE t : t \in @},
                              !.posts_tags =
                                  ReplacePosts(tag_id, IdsIn(posts, form.posts))],
                UniqueViolation(Get(form, "name"), tag_id))

tags_destroy(tag_id) ==
    IF ~HasRow(tags, tag_id)
    THEN Reject("tags_destroy", tag_id, NoForm, 404)
    ELSE Commit("tags_destroy", tag_id, NoForm,
                [store EXCEPT !.tags = {t \in @ : t.id # tag_id},
                              !.posts_tags = RowsAfterTagDelete(tag_id)],
                FALSE)

(* ---------------------------------------------------------------------- *)
(* Specifications                                                          *)
(* ---------------------------------------------------------------------- *)
\* The whole application: every route, any order.
Next ==
    \/ root
    \/ users_index
    \/ users_new_form
    \/ \E form \in CoreUserForms : seq.users <= MaxUserId /\ users_new(form)
    \/ \E user_id \in UserIds : users_show(user_id)
    \/ \E user_id \in UserIds : users_edit(user_id)
    \/ \E user_id \in UserIds, form \in CoreUserForms :
           users_update(user_id, form)
    \/ \E user_id \in UserIds : users_destroy(user_id)
    \/ \E user_id \in UserIds : posts_new_form(user_id)
    \/ \E user_id \in UserIds, form \in CorePostForms :
           seq.posts <= MaxPostId /\ posts_new(user_id, form)
    \/ \E post_id \in PostIds : posts_show(post_id)
    \/ \E post_id \in PostIds : posts_edit(post_id)
    \/ \E post_id \in PostIds, form \in CorePostForms :
           posts_update(post_id, form)
    \/ \E post_id \in PostIds : posts_destroy(post_id)
    \/ tags_index
    \/ tags_new_form
    \/ \E form \in CoreTagForms : seq.tags <= MaxTagId /\ tags_new(form)
    \/ \E tag_id \in TagIds : tags_show(tag_id)
    \/ \E tag_id \in TagIds : tags_edit_form(tag_id)
    \/ \E tag_id \in TagIds, form \in CoreTagForms : tags_edit(tag_id, form)
    \/ \E tag_id \in TagIds : tags_destroy(tag_id)

Spec == Init /\ [][Next]_vars

\* The user routes, with every shape of user form.
NextUsers ==
    \/ \E form \in UserForms : seq.users <= MaxUserId /\ users_new(form)
    \/ \E user_id \in UserIds : users_show(user_id)
    \/ \E user_id \in UserIds, form \in UserForms : users_update(user_id, form)
    \/ \E user_id \in UserIds : users_destroy(user_id)

SpecUsers == Init /\ [][NextUsers]_vars

\* The create and edit routes of the three entities, with every shape of
\* form, over at most FormsMaxId rows of each table.
NextForms ==
    \/ \E form \in UserForms : seq.users <= FormsMaxId /\ users_new(form)
    \/ \E user_id \in 1..FormsMaxId, form \in UserForms :
           users_update(user_id, form)
    \/ \E user_id \in 1..FormsMaxId, form \in PostForms :
           seq.posts <= FormsMaxId /\ posts_new(user_id, form)
    \/ \E post_id \in 1..FormsMaxId, form \in PostForms :
           posts_update(post_id, form)
    \/ \E form \in TagForms : seq.tags <= FormsMaxId /\ tags_new(form)
    \/ \E tag_id \in 1..FormsMaxId, form \in TagForms : tags_edit(tag_id, form)

SpecForms == Init /\ [][NextForms]_vars

(* ---------------------------------------------------------------------- *)
(* Properties                                                              *)
(* ---------------------------------------------------------------------- *)
Tables(s) == <<s.users, s.posts, s.tags, s.posts_tags>>

UserRoutes == {"users_show", "users_edit", "users_update", "users_destroy",
               "posts_new_form", "posts_new"}
PostRoutes == {"posts_show", "posts_edit", "posts_update", "posts_destroy"}
TagRoutes == {"tags_show", "tags_edit_form", "tags_edit", "tags_destroy"}

\* the tag a tags_new / tags_edit request is about
TargetTag == IF req.op = "tags_new" THEN old.seq.tags ELSE req.id

\* C1: a post edit that names an existing post and carries title and content
\* succeeds whatever ids its tag list holds, and leaves the post with exactly
\* the stored tags whose id is in the list.
C1_PostEditReplacesTags ==
    (/\ req.op = "posts_update"
     /\ \E p \in old.posts : p.id = req.id
     /\ req.form.title # <<>>
     /\ req.form.content # <<>>)
        => /\ req.status = 302
           /\ {pt.tag_id : pt \in {x \in posts_tags : x.post_id = req.id}}
                  = {t.id : t \in {x \in tags : x.id \in req.form.tags}}

\* a post edit that removed a prior tag, dropped an unknown id and attached
\* a tag the post did not have
C1_Witness ==
    /\ req.op = "posts_update"
    /\ req.status = 302
    /\ TagsOf(old.posts_tags, req.id) \ req.form.tags # {}
    /\ \E i \in req.form.tags : \A t \in tags : t.id # i
    /\ TagsOf(posts_tags, req.id) \ TagsOf(old.posts_tags, req.id) # {}

\* C2: deleting an existing user succeeds, leaves no post of that user,
\* leaves the posts of the other users as they were and leaves the tags
\* table as it was.
C2_UserDeleteCascades ==
    (req.op = "users_destroy" /\ \E u \in old.users : u.id = req.id)
        => /\ req.status = 302
           /\ \A u \in users : u.id # req.id
           /\ \A p \in posts : p.user_id # req.id
           /\ posts = {p \in old.posts : p.user_id # req.id}
           /\ tags = old.tags

\* a user was deleted whose posts were the only ones carrying some tag,
\* while a post of another user stays
C2_Witness ==
    /\ req.op = "users_destroy"
    /\ req.status = 302
    /\ posts # {}
    /\ \E t \in tags :
           /\ PostsOf(old.posts_tags, t.id) # {}
           /\ \A i \in PostsOf(old.posts_tags, t.id) :
                  \E p \in old.posts : p.id = i /\ p.user_id = req.id

\* C3: a route that names a row by id, called with an id that has no row,
\* answers 404 and leaves the store as it was.
C3_UnknownIdIs404 ==
    (\/ req.op \in UserRoutes /\ \A u \in old.users : u.id # req.id
     \/ req.op \in PostRoutes /\ \A p \in old.posts : p.id # req.id
     \/ req.op \in TagRoutes /\ \A t \in old.tags : t.id # req.id)
        => req.status = 404 /\ store = old

\* a complete post form submitted for a user that does not exist, in a
\* store that holds other users and tags the form lists
C3_Witness ==
    /\ req.op = "posts_new"
    /\ req.status = 404
    /\ req.form.title # <<>>
    /\ users # {}
    /\ \E t \in tags : t.id \in req.form.tags

\* C4: no two stored tags have the same name, and a tag create, or an edit
\* of another tag, that submits a name in use answers 500 and leaves the
\* tags table as it was.
C4_TagNamesUnique ==
    /\ \A a, b \in tags : a.name = b.name => a = b
    /\ (/\ req.op \in {"tags_new", "tags_edit"}
        /\ req.op = "tags_edit" => \E t \in old.tags : t.id = req.id
        /\ req.form.name # <<>>
        /\ \E t \in old.tags : t.name = Head(req.form.name) /\ t.id # req.id)
           => req.status = 500 /\ tags = old.tags

\* an edit tried to give a tag the name of the other stored tag
C4_Witness ==
    /\ req.op = "tags_edit"
    /\ req.status = 500
    /\ Cardinality(tags) = 2

\* C5: a user create whose form carries the three keys stores one new user;
\* its image URL is DEFAULT_IMAGE_URL when the submitted one is empty and
\* the submitted one otherwise.
C5_DefaultImageUrl ==
    (/\ req.op = "users_new"
     /\ req.form.first_name # <<>>
     /\ req.form.last_name # <<>>
     /\ req.form.image_url # <<>>)
        => /\ req.status = 302
           /\ \E u \in users :
                  /\ users = old.users \cup {u}
                  /\ u.id = old.seq.users
                  /\ u.first_name = Head(req.form.first_name)
                  /\ u.last_name = Head(req.form.last_name)
                  /\ u.image_url = IF Head(req.form.image_url) = ""
                                   THEN DEFAULT_IMAGE_URL
                                   ELSE Head(req.form.image_url)

\* a named user created with an empty image URL, beside a user created with
\* a URL of its own
C5_Witness ==
    /\ req.op = "users_new"
    /\ req.status = 302
    /\ req.form = [first_name |-> <<"Ann">>, last_name |-> <<"Lee">>,
                   image_url |-> <<"">>]
    /\ \E u \in users : u.id = old.seq.users /\ u.image_url = DEFAULT_IMAGE_URL
    /\ \E u \in users : u.image_url = "u.png"

\* C6: after a tag edit or a post edit either no table differs from what
\* the request found, or the request succeeded and both the submitted
\* fields and the submitted association set are in the store; an edit that
\* did not succeed changed nothing.
C6_EditAllOrNothing ==
    /\ req.op = "tags_edit" =>
           \/ req.status # 302 /\ Tables(store) = Tables(old)
           \/ /\ req.status = 302
              /\ \E t \in tags : t.id = req.id /\ t.name = Head(req.form.name)
              /\ {pt.post_id : pt \in {x \in posts_tags : x.tag_id = req.id}}
                     = {p.id : p \in {x \in posts : x.id \in req.form.posts}}
    /\ req.op = "posts_update" =>
           \/ req.status # 302 /\ Tables(store) = Tables(old)
           \/ /\ req.status = 302
              /\ \E p \in posts : /\ p.id = req.id
                                  /\ p.title = Head(req.form.title)
                                  /\ p.content = Head(req.form.content)
              /\ {pt.tag_id : pt \in {x \in posts_tags : x.post_id = req.id}}
                     = {t.id : t \in {x \in tags : x.id \in req.form.tags}}

\* a tag edit failed on its name while its form listed posts other than the
\* ones the tag has
C6_Witness ==
    /\ req.op = "tags_edit"
    /\ req.status = 500
    /\ PostsOf(posts_tags, req.id) # {}
    /\ IdsIn(posts, req.form.posts) # PostsOf(posts_tags, req.id)

\* C7: a create or edit submission in which a required field is absent or
\* empty is rejected and changes no table.
C7_RequiredFieldsRejected ==
    (\/ /\ req.op \in {"users_new", "users_update"}
        /\ \E k \in {"first_name", "last_name"} : req.form[k] \in {<<>>, <<"">>}
     \/ /\ req.op \in {"posts_new", "posts_update"}
        /\ \E k \in {"title", "content"} : req.form[k] \in {<<>>, <<"">>}
     \/ /\ req.op \in {"tags_new", "tags_edit"}
        /\ req.form.name \in {<<>>, <<"">>})
        => req.status # 302 /\ Tables(store) = Tables(old)

\* C8: every stored post has one row, owned by a stored user, and a post
\* edit leaves every post with the owner it had.
C8_PostHasOneOwner ==
    /\ \A p \in posts : \E u \in users : u.id = p.user_id
    /\ \A p, q \in posts : p.id = q.id => p = q
    /\ req.op = "posts_update" =>
           \A p \in posts : \E q \in old.posts :
               q.id = p.id /\ q.user_id = p.user_id

\* a user with posts was deleted while a post of another user stays
C8_Witness ==
    /\ req.op = "users_destroy"
    /\ req.status = 302
    /\ \E p \in old.posts : p.user_id = req.id
    /\ posts # {}
    /\ users # {}

\* C9: every row of the secondary table pairs a stored post with a stored
\* tag; a delete removes exactly the rows that mention what it deleted; the
\* deletion of a post or a user leaves the tags table as it was and the
\* deletion of a tag leaves the posts table as it was.
C9_JoinRowsPairStoredRows ==
    /\ \A pt \in posts_tags :
           /\ \E p \in posts : p.id = pt.post_id
           /\ \E t \in tags : t.id = pt.tag_id
    /\ req.op \in {"posts_destroy", "users_destroy"} => tags = old.tags
    /\ req.op = "tags_destroy" => posts = old.posts
    /\ (req.op = "posts_destroy" /\ req.status = 302) =>
           posts_tags = {pt \in old.posts_tags : pt.post_id # req.id}
    /\ (req.op = "tags_destroy" /\ req.status = 302) =>
           posts_tags = {pt \in old.posts_tags : pt.tag_id # req.id}
    /\ (req.op = "users_destroy" /\ req.status = 302) =>
           posts_tags = {pt \in old.posts_tags :
                            \E p \in old.posts :
                                p.id = pt.post_id /\ p.user_id # req.id}

\* a tag on a post was deleted while the post carries another tag
C9_Witness ==
    /\ req.op = "tags_destroy"
    /\ req.status = 302
    /\ PostsOf(old.posts_tags, req.id) # {}
    /\ posts_tags # {}

\* C10: after a successful tag create or tag edit the tag's posts are
\* exactly the stored posts whose id is in the submitted list, and the rows
\* of every other tag are as they were.
C10_TagEditReplacesPosts ==
    (req.op \in {"tags_new", "tags_edit"} /\ req.status = 302)
        => /\ {pt.post_id : pt \in {x \in posts_tags : x.tag_id = TargetTag}}
                  = {p.id : p \in {x \in posts : x.id \in req.form.posts}}
           /\ {pt \in posts_tags : pt.tag_id # TargetTag}
                  = {pt \in old.posts_tags : pt.tag_id # TargetTag}

\* a tag edit that removed a prior post, dropped an unknown id and attached
\* a post, while another tag has posts of its own
C10_Witness ==
    /\ req.op = "tags_edit"
    /\ req.status = 302
    /\ PostsOf(old.posts_tags, req.id) \ req.form.posts # {}
    /\ \E i \in req.form.posts : \A p \in posts : p.id # i
    /\ PostsOf(posts_tags, req.id) \ PostsOf(old.posts_tags, req.id) # {}
    /\ \E pt \in posts_tags : pt.tag_id # req.id

====
